---- MODULE Spec2Model ----
(***************************************************************************)
(* Model of the C and C++ test-program templates of lexical-float-format   *)
(* (src/lang/literal.c, literal.cpp, string.c, string.cpp).                *)
(*                                                                         *)
(* A template is filled in with a fixture (type, value, expected, base),   *)
(* compiled, and run.  The model follows one fixture through the two       *)
(* dialects (C and C++) of one template kind: render, compile, then the    *)
(* statements of the generated main() one by one.                          *)
(*                                                                         *)
(* Numbers are 64-bit words held as four 16-bit limbs, least significant   *)
(* first, in two's complement.  Text is a sequence of one-character        *)
(* strings.                                                                *)
(***************************************************************************)
EXTENDS Integers, Sequences, FiniteSets, TLC

(***************************************************************************)
(* Bounds of the model.                                                    *)
(***************************************************************************)
\* Longest value text enumerated over Alphabet.
MaxLen == 2

(***************************************************************************)
(* 64-bit arithmetic on limbs.                                             *)
(***************************************************************************)
Limb == 2^16

Zero64 == <<0, 0, 0, 0>>

One64 == <<1, 0, 0, 0>>

\* w * m + d, with the carry out of bit 63 reported.
MulAdd(w, m, d) ==
    LET t1 == w[1] * m + d
        t2 == w[2] * m + (t1 \div Limb)
        t3 == w[3] * m + (t2 \div Limb)
        t4 == w[4] * m + (t3 \div Limb)
    IN  [w |-> <<t1 % Limb, t2 % Limb, t3 % Limb, t4 % Limb>>,
         over |-> (t4 \div Limb) > 0]

\* a + b modulo 2^64.
Add64(a, b) ==
    LET t1 == a[1] + b[1]
        t2 == a[2] + b[2] + (t1 \div Limb)
        t3 == a[3] + b[3] + (t2 \div Limb)
        t4 == a[4] + b[4] + (t3 \div Limb)
    IN  <<t1 % Limb, t2 % Limb, t3 % Limb, t4 % Limb>>

\* -a modulo 2^64.
Neg64(a) ==
    Add64(<<Limb - 1 - a[1], Limb - 1 - a[2], Limb - 1 - a[3], Limb - 1 - a[4]>>, One64)

\* a <= b as unsigned 64-bit numbers.
LeqU(a, b) ==
    \/ a[4] < b[4]
    \/ a[4] = b[4] /\ a[3] < b[3]
    \/ a[4] = b[4] /\ a[3] = b[3] /\ a[2] < b[2]
    \/ a[4] = b[4] /\ a[3] = b[3] /\ a[2] = b[2] /\ a[1] <= b[1]

\* Widths the platform's `long` can have (LLP64/ILP32 and LP64).
LongWidths == {32, 64}

\* LONG_MAX, -(LONG_MIN) as a magnitude, and ULONG_MAX for a `long` of `bits` bits.
LongMax(bits) == IF bits = 32 THEN <<65535, 32767, 0, 0>> ELSE <<65535, 65535, 65535, 32767>>

LongMinMag(bits) == IF bits = 32 THEN <<0, 32768, 0, 0>> ELSE <<0, 0, 0, 32768>>

ULongMax(bits) == IF bits = 32 THEN <<65535, 65535, 0, 0>> ELSE <<65535, 65535, 65535, 65535>>

\* Truncation of a 64-bit pattern to `unsigned long`, zero-extended to uint64_t.
TruncU(w, bits) == IF bits = 32 THEN <<w[1], w[2], 0, 0>> ELSE w

(***************************************************************************)
(* Values of the three numeric types: a NaN flag and a 64-bit word.        *)
(* An f64 holds the integer it equals (the inputs have no fraction and     *)
(* stay below 2^53), or NaN.                                               *)
(***************************************************************************)
Num(w) == [nan |-> FALSE, w |-> w]

NaN == [nan |-> TRUE, w |-> Zero64]

\* A comparison of the stored words, which takes NaN for a number.
Eq_Bitwise(a, b) == a.w = b.w

\* The C operators == and != on two values of one type.
Eq(a, b) == ~a.nan /\ ~b.nan /\ a.w = b.w

Neq(a, b) == ~Eq(a, b)

(***************************************************************************)
(* Characters.                                                             *)
(***************************************************************************)
DigitChars == <<"0", "1", "2", "3", "4", "5", "6", "7", "8", "9",
                "a", "b", "c", "d", "e", "f", "g", "h", "i", "j", "k", "l", "m",
                "n", "o", "p", "q", "r", "s", "t", "u", "v", "w", "x", "y", "z">>

UpperChars == <<"0", "1", "2", "3", "4", "5", "6", "7", "8", "9",
                "A", "B", "C", "D", "E", "F", "G", "H", "I", "J", "K", "L", "M",
                "N", "O", "P", "Q", "R", "S", "T", "U", "V", "W", "X", "Y", "Z">>

\* F applied to the value of x, which is computed once.
Let(x, F(_)) == CHOOSE y \in {F(v) : v \in {x}} : TRUE

\* Digit value of c as strtol reads it (letters in either case), 36 when c is no digit.
DigitOf(c) ==
    IF \E k \in 1..36 : DigitChars[k] = c \/ UpperChars[k] = c
    THEN (CHOOSE k \in 1..36 : DigitChars[k] = c \/ UpperChars[k] = c) - 1
    ELSE 36

DigitVal(c) == Let(c, LAMBDA ch : DigitOf(ch))

IsSpace(c) == c = " "

IsAlnum(c) == DigitVal(c) < 36

\* Character at 1-based position i, or the terminator "" past the end.
At(s, i) == Let(i, LAMBDA k : IF k >= 1 /\ k <= Len(s) THEN s[k] ELSE "")

RECURSIVE SkipSpace(_, _)
SkipSpace(s, i) == IF IsSpace(At(s, i)) THEN Let(i + 1, LAMBDA k : SkipSpace(s, k)) ELSE i

(***************************************************************************)
(* The C library conversions the string templates call.  `end` is the      *)
(* number of characters before the position the library stores in *endptr, *)
(* so *end is the terminator exactly when end = Len(s).  Value texts hold  *)
(* no radix prefix, fraction, exponent or "inf", which are not modelled.   *)
(***************************************************************************)
\* Accumulates the digits of `base` from position i; `over` is set once the
\* magnitude no longer fits an unsigned long of `bits` bits.
ScanStep(s, base, bits, st) ==
    Let(MulAdd(st.acc, base, DigitVal(At(s, st.stop))),
        LAMBDA r :
            IF st.over \/ r.over \/ ~LeqU(r.w, ULongMax(bits))
            THEN [stop |-> st.stop + 1, acc |-> ULongMax(bits), over |-> TRUE]
            ELSE [stop |-> st.stop + 1, acc |-> r.w, over |-> FALSE])

RECURSIVE ScanLoop(_, _, _, _)
ScanLoop(s, base, bits, st) ==
    IF DigitVal(At(s, st.stop)) < base
    THEN Let(ScanStep(s, base, bits, st), LAMBDA n : ScanLoop(s, base, bits, n))
    ELSE st

ScanDigits(s, i, base, acc, over, bits) ==
    Let([stop |-> i, acc |-> acc, over |-> over], LAMBDA st : ScanLoop(s, base, bits, st))

\* Position of the first digit: after white space and an optional sign.
SignPos(s) == SkipSpace(s, 1)

DigitPos(s) == Let(SignPos(s), LAMBDA k : IF At(s, k) \in {"-", "+"} THEN k + 1 ELSE k)

IsNeg(s) == At(s, SignPos(s)) = "-"

\* long strtol(const char*, char**, int): the value as a sign-extended word.
strtol(s, base, bits) ==
    Let(ScanDigits(s, DigitPos(s), base, Zero64, FALSE, bits),
        LAMBDA r :
            IF r.stop = DigitPos(s)
            THEN [val |-> Zero64, end |-> 0]
            ELSE [val |-> IF IsNeg(s)
                          THEN IF r.over \/ ~LeqU(r.acc, LongMinMag(bits))
                               THEN Neg64(LongMinMag(bits))
                               ELSE Neg64(r.acc)
                          ELSE IF r.over \/ ~LeqU(r.acc, LongMax(bits))
                               THEN LongMax(bits)
                               ELSE r.acc,
                  end |-> r.stop - 1])

\* unsigned long strtoul(const char*, char**, int): the value zero-extended.
strtoul(s, base, bits) ==
    Let(ScanDigits(s, DigitPos(s), base, Zero64, FALSE, bits),
        LAMBDA r :
            IF r.stop = DigitPos(s)
            THEN [val |-> Zero64, end |-> 0]
            ELSE [val |-> IF r.over THEN ULongMax(bits)
                          ELSE IF IsNeg(s) THEN TruncU(Neg64(r.acc), bits)
                          ELSE r.acc,
                  end |-> r.stop - 1])

\* "nan" in either case at position i.
IsNanAt(s, i) ==
    /\ At(s, i) \in {"n", "N"}
    /\ At(s, i + 1) \in {"a", "A"}
    /\ At(s, i + 2) \in {"n", "N"}

\* double strtod(const char*, char**).
strtod(s) ==
    Let(ScanDigits(s, DigitPos(s), 10, Zero64, FALSE, 64),
        LAMBDA r :
            IF IsNanAt(s, DigitPos(s))
            THEN [val |-> NaN, end |-> DigitPos(s) + 2]
            ELSE IF r.stop = DigitPos(s)
            THEN [val |-> Num(Zero64), end |-> 0]
            ELSE [val |-> Num(IF IsNeg(s) THEN Neg64(r.acc) ELSE r.acc), end |-> r.stop - 1])

\* The library function a callee name denotes; the C++ names are the C ones in std.
LibCall(name, s, base, bits) ==
    IF name \in {"strtol", "std::strtol"}
    THEN Let(strtol(s, base, bits), LAMBDA r : [val |-> Num(r.val), end |-> r.end])
    ELSE IF name \in {"strtoul", "std::strtoul"}
    THEN Let(strtoul(s, base, bits), LAMBDA r : [val |-> Num(r.val), end |-> r.end])
    ELSE strtod(s)

Lib(name, s, base, bits) == Let(s, LAMBDA str : LibCall(name, str, base, bits))

(***************************************************************************)
(* What the compiler makes of the substituted text.                        *)
(***************************************************************************)
\* The argument of the parser call: one or more adjacent string literals,
\* concatenated.  Anything else between the parentheses does not compile.
\* st: the position, whether it is inside a literal, the characters and the
\* number of literals so far.
RECURSIVE StringLoop(_, _)
StringLoop(a, st) ==
    IF st.i > Len(a)
    THEN [ok |-> ~st.inside /\ st.n > 0, str |-> st.acc]
    ELSE IF st.inside
    THEN IF a[st.i] = "\""
         THEN Let([st EXCEPT !.i = @ + 1, !.inside = FALSE, !.n = @ + 1],
                  LAMBDA n : StringLoop(a, n))
         ELSE Let([st EXCEPT !.i = @ + 1, !.acc = Append(@, a[st.i])],
                  LAMBDA n : StringLoop(a, n))
    ELSE IF a[st.i] = "\""
    THEN Let([st EXCEPT !.i = @ + 1, !.inside = TRUE], LAMBDA n : StringLoop(a, n))
    ELSE IF IsSpace(a[st.i])
    THEN Let([st EXCEPT !.i = @ + 1], LAMBDA n : StringLoop(a, n))
    ELSE [ok |-> FALSE, str |-> st.acc]

StringArg(a, i, inside, acc, n) ==
    Let(a, LAMBDA txt : StringLoop(txt, [i |-> i, inside |-> inside, acc |-> acc, n |-> n]))

\* End of the run of letters and digits that starts at i.
RECURSIVE RunEnd(_, _)
RunEnd(s, i) == IF IsAlnum(At(s, i)) THEN Let(i + 1, LAMBDA k : RunEnd(s, k)) ELSE i

\* An integer constant: decimal, or octal after a leading 0.
ConstBase(run) == IF Len(run) > 1 /\ run[1] = "0" THEN 8 ELSE 10

IsIntConst(run) == \A k \in 1..Len(run) : DigitVal(run[k]) < ConstBase(run)

IntConst(run) == Let(run, LAMBDA r : ScanDigits(r, 1, ConstBase(r), Zero64, FALSE, 64).acc)

\* t negated when neg holds.
Signed(t, neg) == IF t.nan \/ ~neg THEN t ELSE Num(Neg64(t.w))

\* acc - t.
Minus(acc, t) ==
    IF acc.nan \/ t.nan THEN NaN
    ELSE Let(Neg64(t.w), LAMBDA m : Num(Add64(acc.w, m)))

\* The term that starts at position i: an integer constant or the NAN macro.
Term(run) == IF run = <<"N", "A", "N">> THEN NaN ELSE Num(IntConst(run))

\* The state after the term `run`, which ends before position j.
AfterTerm(st, run, j) ==
    Let(Signed(Term(run), st.neg),
        LAMBDA v : [i |-> j, st |-> "operator", neg |-> FALSE, sub |-> FALSE,
                    acc |-> IF st.sub THEN Minus(st.acc, v) ELSE v])

\* An initializer: constants and the NAN macro under unary and binary minus.
\* st.st is "operand" while a term is due and "operator" after one.
RECURSIVE ConstLoop(_, _)
ConstLoop(s, st) ==
    LET c == At(s, st.i)
    IN  IF st.i > Len(s) THEN [ok |-> st.st = "operator", val |-> st.acc]
        ELSE IF IsSpace(c)
        THEN Let([st EXCEPT !.i = @ + 1], LAMBDA n : ConstLoop(s, n))
        ELSE IF c = "-"
        THEN IF At(s, st.i + 1) = "-" THEN [ok |-> FALSE, val |-> st.acc]
             ELSE IF st.st = "operand"
             THEN Let([st EXCEPT !.i = @ + 1, !.neg = ~@], LAMBDA n : ConstLoop(s, n))
             ELSE Let([st EXCEPT !.i = @ + 1, !.st = "operand", !.neg = FALSE, !.sub = TRUE],
                      LAMBDA n : ConstLoop(s, n))
        ELSE IF st.st = "operand" /\ IsAlnum(c)
        THEN Let(SubSeq(s, st.i, RunEnd(s, st.i) - 1),
                 LAMBDA run :
                     IF IsIntConst(run) \/ run = <<"N", "A", "N">>
                     THEN Let(AfterTerm(st, run, st.i + Len(run)), LAMBDA n : ConstLoop(s, n))
                     ELSE [ok |-> FALSE, val |-> st.acc])
        ELSE [ok |-> FALSE, val |-> st.acc]

ConstExpr(s, i, st, neg, sub, acc) ==
    Let(s, LAMBDA txt :
               ConstLoop(txt, [i |-> i, st |-> st, neg |-> neg, sub |-> sub, acc |-> acc]))

Initializer(s) == ConstExpr(s, 1, "operand", FALSE, FALSE, Num(Zero64))

(***************************************************************************)
(* The templates: the lines that hold placeholders, as segments of fixed   *)
(* text and placeholders.                                                  *)
(***************************************************************************)
T(s) == [ph |-> FALSE, s |-> s]

P(n) == [ph |-> TRUE, s |-> n]

LiteralTemplates == {"literal.c", "literal.cpp"}

StringTemplates == {"string.c", "string.cpp"}

TemplateIds == LiteralTemplates \cup StringTemplates

\* literal.c and literal.cpp, lines 10 and 11.
LiteralLines ==
    [actual   |-> <<P("type"), T(" actual = "), P("value"), T(";")>>,
     expected |-> <<P("type"), T(" expected = "), P("expected"), T(";")>>]

\* string.c with u64 calling strtol.
StringCLines_U64ViaStrtol ==
    [i64      |-> <<T("long i = "), T("strtol"), T("(value, &end, "), P("base"), T(");")>>,
     u64      |-> <<T("unsigned long i = "), T("strtol"), T("(value, &end, "), P("base"), T(");")>>,
     f64      |-> <<T("double f = "), T("strtod"), T("(value, &end);")>>,
     actual   |-> <<T("actual."), P("type"), T(" = "), P("type"), T("("), T("\""), P("value"),
                    T("\""), T(")"), T(";")>>,
     expected |-> <<T("expected."), P("type"), T(" = "), P("expected"), T(";")>>]

\* string.c, lines 16, 26, 36, 48 and 49.
StringCLines ==
    [i64      |-> <<T("long i = "), T("strtol"), T("(value, &end, "), P("base"), T(");")>>,
     u64      |-> <<T("unsigned long i = "), T("strtoul"), T("(value, &end, "), P("base"), T(");")>>,
     f64      |-> <<T("double f = "), T("strtod"), T("(value, &end);")>>,
     actual   |-> <<T("actual."), P("type"), T(" = "), P("type"), T("("), T("\""), P("value"),
                    T("\""), T(")"), T(";")>>,
     expected |-> <<T("expected."), P("type"), T(" = "), P("expected"), T(";")>>]

\* string.cpp with u64 calling std::strtol.
StringCppLines_U64ViaStrtol ==
    [i64      |-> <<T("long i = "), T("std::strtol"), T("(value, &end, "), P("base"), T(");")>>,
     u64      |-> <<T("unsigned long i = "), T("std::strtol"), T("(value, &end, "), P("base"), T(");")>>,
     f64      |-> <<T("double f = "), T("std::strtod"), T("(value, &end);")>>,
     actual   |-> <<T("actual."), P("type"), T(" = "), P("type"), T("("), T("\""), P("value"),
                    T("\""), T(")"), T(";")>>,
     expected |-> <<T("expected."), P("type"), T(" = "), P("expected"), T(";")>>]

\* string.cpp with no quotes of its own around the value.
StringCppLines_NoQuotes ==
    [i64      |-> <<T("long i = "), T("std::strtol"), T("(value, &end, "), P("base"), T(");")>>,
     u64      |-> <<T("unsigned long i = "), T("std::strtoul"), T("(value, &end, "), P("base"), T(");")>>,
     f64      |-> <<T("double f = "), T("std::strtod"), T("(value, &end);")>>,
     actual   |-> <<T("actual."), P("type"), T(" = "), P("type"), T("("), P("value"), T(")"),
                    T(";")>>,
     expected |-> <<T("expected."), P("type"), T(" = "), P("expected"), T(";")>>]

\* string.cpp, lines 16, 26, 36, 48 and 49.
StringCppLines ==
    [i64      |-> <<T("long i = "), T("std::strtol"), T("(value, &end, "), P("base"), T(");")>>,
     u64      |-> <<T("unsigned long i = "), T("std::strtoul"), T("(value, &end, "), P("base"), T(");")>>,
     f64      |-> <<T("double f = "), T("std::strtod"), T("(value, &end);")>>,
     actual   |-> <<T("actual."), P("type"), T(" = "), P("type"), T("("), T("\""), P("value"),
                    T("\""), T(")"), T(";")>>,
     expected |-> <<T("expected."), P("type"), T(" = "), P("expected"), T(";")>>]

Template(t) ==
    IF t \in LiteralTemplates THEN LiteralLines
    ELSE IF t = "string.c" THEN StringCLines
    ELSE StringCppLines

\* The names each template declares: the typedefs of the literal templates,
\* the union members and parser functions of the string templates.
Declared(t) == {"i64", "u64", "f64"}

\* Every template referencing every placeholder.
Placeholders_All(t) == {"type", "value", "expected", "base"}

\* The placeholders a template references.
Placeholders(t) ==
    {Template(t)[l][k].s : <<l, k>> \in
        {x \in (DOMAIN Template(t)) \X (1..10) :
            x[2] <= Len(Template(t)[x[1]]) /\ Template(t)[x[1]][x[2]].ph}}

(***************************************************************************)
(* The renderer: substitution of the fixture's texts for the placeholders. *)
(***************************************************************************)
\* The text a segment renders to: fixed text is one atom, a fixture text is
\* inserted as it is.
SegText(seg, fx) ==
    IF ~seg.ph THEN <<seg.s>>
    ELSE IF seg.s = "type" THEN <<fx.type>>
    ELSE IF seg.s = "value" THEN fx.value
    ELSE IF seg.s = "expected" THEN fx.expected
    ELSE fx.base

RECURSIVE Subst(_, _)
Subst(segs, fx) ==
    IF segs = <<>> THEN <<>> ELSE SegText(Head(segs), fx) \o Subst(Tail(segs), fx)

\* Rendering fails when the fixture lacks a referenced placeholder.
MissingPlaceholder(t, fx) == ~(Placeholders(t) \subseteq fx.has)

Render(t, fx) == [l \in DOMAIN Template(t) |-> Subst(Template(t)[l], fx)]

(***************************************************************************)
(* The rendered program as the compiler reads it.                          *)
(***************************************************************************)
\* literal: `<type> actual = <init>;` and `<type> expected = <init>;`
LitType(r) == r.actual[1]

LitInit(r) == SubSeq(r.actual, 3, Len(r.actual) - 1)

LitExpected(r) == SubSeq(r.expected, 3, Len(r.expected) - 1)

\* string: `actual.<member> = <parser>(<argument>);`, `expected.<member> = <init>;`
\* and the base argument of strtol and strtoul.
StrMember(r) == r.actual[2]

StrParser(r) == r.actual[4]

StrArgText(r) == SubSeq(r.actual, 6, Len(r.actual) - 2)

StrExpected(r) == SubSeq(r.expected, 4, Len(r.expected) - 1)

StrBase(r) == IntConst(SubSeq(r.i64, 4, Len(r.i64) - 1))[1]

\* The program compiles: the type is declared, the value is an initializer
\* (literal) or leaves a string literal as the argument (string), and the
\* expected text is an initializer.
Compiles(t, r) ==
    IF t \in LiteralTemplates
    THEN /\ LitType(r) \in Declared(t)
         /\ Initializer(LitInit(r)).ok
         /\ Initializer(LitExpected(r)).ok
    ELSE /\ StrMember(r) \in Declared(t)
         /\ StrParser(r) \in Declared(t)
         /\ StringArg(StrArgText(r), 1, FALSE, <<>>, 0).ok
         /\ Initializer(StrExpected(r)).ok

(***************************************************************************)
(* Fixtures.                                                               *)
(***************************************************************************)
\* Characters of the enumerated value texts.
Alphabet == {"4", "a", "-", "\""}

\* Longer value texts of interest.
NamedValues ==
    {<<"4", "2">>,
     <<"1", "2", "a", "b", "c">>,
     <<"a", "b", "c">>,
     <<"n", "a", "n">>,
     <<"N", "A", "N">>,
     <<"n", "a", "n", "4">>,
     <<"-", "4", "2">>,
     <<" ", "4", "2">>,
     <<"\"", "4", "2", "\"">>,
     <<"\"", " ", "\"">>,
     <<"4", "2", "9", "4", "9", "6", "7", "2", "9", "5">>,
     <<"4", "2", "9", "4", "9", "6", "7", "2", "9", "6">>}

Values == UNION {[1..n -> Alphabet] : n \in 0..MaxLen} \cup NamedValues

Expecteds ==
    {<<"0">>, <<"4">>, <<"4", "2">>, <<"N", "A", "N">>,
     <<"4", "2", "9", "4", "9", "6", "7", "2", "9", "5">>}

Bases == {<<"1", "0">>, <<"1", "6">>}

TypeNames == {"i64", "u64", "f64", "u32"}

AllPlaceholders == {"type", "value", "expected", "base"}

\* A fixture supplies every placeholder, or lacks one.
HasSets == {AllPlaceholders} \cup {AllPlaceholders \ {p} : p \in AllPlaceholders}

\* The value texts tried in the fixtures that lack a placeholder.
PartialValues == {<<"4", "2">>, <<"1", "2", "a", "b", "c">>}

\* NaN is a value of the floating-point type only.
MentionsNaN(s) == \E k \in 1..Len(s) : s[k] = "N"

Fixtures ==
    {fx \in [type : TypeNames, value : Values, expected : Expecteds, base : Bases, has : HasSets] :
        /\ (MentionsNaN(fx.value) \/ MentionsNaN(fx.expected)) => fx.type = "f64"
        /\ fx.has # AllPlaceholders => fx.value \in PartialValues}

(***************************************************************************)
(* State.                                                                  *)
(***************************************************************************)
VARIABLES
    fixture,    \* the fixture under test
    longBits,   \* width of the platform's long
    kind,       \* "literal" or "string": the pair of templates exercised
    template,   \* the template being rendered and run, or "none"
    pc,         \* position in the run
    rendered,   \* the rendered lines, <<>> when none
    arg,        \* the string passed to the parser
    end,        \* where its conversion stopped
    actual,     \* main's `actual`
    expected,   \* main's `expected`
    stdout,     \* what the program has printed
    evaluated,  \* the assertions evaluated so far
    results     \* per template, how its run ended

vars == <<fixture, longBits, kind, template, pc, rendered, arg, end, actual, expected, stdout,
          evaluated, results>>

Undef == [nan |-> FALSE, w |-> <<>>]

NoResult ==
    [outcome |-> "none", code |-> 0, actual |-> Undef, expected |-> Undef, stdout |-> <<>>,
     evaluated |-> {}, arg |-> <<>>, end |-> 0]

TemplatesOf(k) == IF k = "literal" THEN LiteralTemplates ELSE StringTemplates

\* The templates of a kind are taken in turn, the C one first; t is the next.
IsNext(t) ==
    /\ t \in TemplatesOf(kind)
    /\ results[t].outcome = "none"
    /\ t \in {"literal.cpp", "string.cpp"} =>
          \A u \in TemplatesOf(kind) \ {t} : results[u].outcome # "none"

\* Before a fixture is taken from the fixture set.
NoFixture == [type |-> "none", value |-> <<>>, expected |-> <<>>, base |-> <<>>, has |-> {}]

Init ==
    /\ fixture = NoFixture
    /\ longBits \in LongWidths
    /\ kind \in {"literal", "string"}
    /\ template = "none"
    /\ pc = "start"
    /\ rendered = <<>>
    /\ arg = <<>>
    /\ end = 0
    /\ actual = Undef
    /\ expected = Undef
    /\ stdout = <<>>
    /\ evaluated = {}
    /\ results = [t \in TemplateIds |-> NoResult]

\* The parsers leaving with exit(0).
ExitCode_ParseErrorZero(o) == IF o = "abort" THEN 128 + 6 ELSE 0

\* Exit status as the caller of the process sees it; abort() raises SIGABRT.
ExitCode(o) == IF o = "exit0" THEN 0 ELSE IF o = "ParseError" THEN 1 ELSE 128 + 6

\* The run of the current template ends with outcome o.
Finish(o, act, out, ev, a, e) ==
    /\ results' = [results EXCEPT ![template] =
                      [outcome |-> o, code |-> ExitCode(o), actual |-> act,
                       expected |-> expected, stdout |-> out, evaluated |-> ev,
                       arg |-> a, end |-> e]]
    /\ template' = "none"
    /\ pc' = "idle"
    /\ rendered' = <<>>
    /\ arg' = <<>>
    /\ end' = 0
    /\ actual' = Undef
    /\ expected' = Undef
    /\ stdout' = <<>>
    /\ evaluated' = {}

\* The argument string of the parser call and its conversion by the library.
Arg == StringArg(StrArgText(rendered), 1, FALSE, <<>>, 0).str

Conv(s) == Lib(rendered[StrParser(rendered)][2], s, StrBase(rendered), longBits)

(***************************************************************************)
(* Rendering and compiling.                                                *)
(***************************************************************************)
\* One fixture of the fixture set is taken up.
Load(fx) ==
    /\ pc = "start"
    /\ fixture' = fx
    /\ pc' = "idle"
    /\ UNCHANGED <<longBits, kind, template, rendered, arg, end, actual, expected, stdout,
                   evaluated, results>>

RenderOk(t) ==
    /\ pc = "idle"
    /\ IsNext(t)
    /\ ~MissingPlaceholder(t, fixture)
    /\ rendered' = Render(t, fixture)
    /\ template' = t
    /\ pc' = "rendered"
    /\ UNCHANGED <<fixture, longBits, kind, arg, end, actual, expected, stdout, evaluated,
                   results>>

RenderFail(t) ==
    /\ pc = "idle"
    /\ IsNext(t)
    /\ MissingPlaceholder(t, fixture)
    /\ results' = [results EXCEPT ![t] = [NoResult EXCEPT !.outcome = "MissingPlaceholder"]]
    /\ UNCHANGED <<fixture, longBits, kind, template, pc, rendered, arg, end, actual, expected,
                   stdout, evaluated>>

CompileOk ==
    /\ pc = "rendered"
    /\ Compiles(template, rendered)
    /\ pc' = "main"
    /\ UNCHANGED <<fixture, longBits, kind, template, rendered, arg, end, actual, expected,
                   stdout, evaluated, results>>

CompileError ==
    /\ pc = "rendered"
    /\ ~Compiles(template, rendered)
    /\ results' = [results EXCEPT ![template] = [NoResult EXCEPT !.outcome = "CompileError"]]
    /\ template' = "none"
    /\ pc' = "idle"
    /\ rendered' = <<>>
    /\ UNCHANGED <<fixture, longBits, kind, arg, end, actual, expected, stdout, evaluated>>

(***************************************************************************)
(* main() of the literal templates, line 10.                               *)
(***************************************************************************)
InitActual ==
    /\ pc = "main"
    /\ template \in LiteralTemplates
    /\ actual' = Initializer(LitInit(rendered)).val
    /\ pc' = "expected"
    /\ UNCHANGED <<fixture, longBits, kind, template, rendered, arg, end, expected, stdout,
                   evaluated, results>>

(***************************************************************************)
(* main() of the string templates, line 48: the call of i64, u64 or f64.   *)
(***************************************************************************)
\* The test `end == value` in its place: nothing was converted.
Trailing_NothingConverted(s, stop) == stop = 0 /\ Len(s) > 0

\* The test `end == value || *end != 0` in its place.
Trailing_OrNothingConverted(s, stop) == stop < Len(s) \/ stop = 0

\* `if (*end != 0)` in the three parsers.
Trailing(s, stop) == stop < Len(s)

\* The body shared by the three parsers: convert, then fail or return.
Parser(name) ==
    /\ pc = "main"
    /\ template \in StringTemplates
    /\ StrParser(rendered) = name
    /\ \E value \in {Arg} : \E r \in {Conv(value)} :
         IF Trailing(value, r.end)
         THEN /\ Finish("ParseError", actual, Append(stdout, "ParseError:\n"), evaluated,
                        value, r.end)
              /\ UNCHANGED <<fixture, longBits, kind>>
         ELSE /\ arg' = value
              /\ end' = r.end
              /\ actual' = r.val
              /\ pc' = "expected"
              /\ UNCHANGED <<fixture, longBits, kind, template, rendered, expected, stdout,
                             evaluated, results>>

i64 == Parser("i64")

u64 == Parser("u64")

f64 == Parser("f64")

(***************************************************************************)
(* The rest of main(), the same in the four templates.                     *)
(***************************************************************************)
ExpectedText == IF template \in LiteralTemplates THEN LitExpected(rendered) ELSE StrExpected(rendered)

AssignExpected ==
    /\ pc = "expected"
    /\ expected' = Initializer(ExpectedText).val
    /\ pc' = "branch"
    /\ UNCHANGED <<fixture, longBits, kind, template, rendered, arg, end, actual, stdout,
                   evaluated, results>>

\* The test `expected == expected` in its place.
ExpectedIsNaN_Inverted(e) == Eq(e, e)

\* `if (expected != expected)`
ExpectedIsNaN(e) == Neq(e, e)

Branch ==
    /\ pc = "branch"
    /\ pc' = IF ExpectedIsNaN(expected) THEN "assert_nan" ELSE "assert_eq"
    /\ UNCHANGED <<fixture, longBits, kind, template, rendered, arg, end, actual, expected,
                   stdout, evaluated, results>>

\* `assert(actual != actual);`
AssertNaN ==
    /\ pc = "assert_nan"
    /\ IF Neq(actual, actual)
       THEN /\ evaluated' = evaluated \cup {"actual != actual"}
            /\ pc' = "return"
            /\ UNCHANGED <<fixture, longBits, kind, template, rendered, arg, end, actual,
                           expected, stdout, results>>
       ELSE /\ Finish("abort", actual, stdout, evaluated \cup {"actual != actual"},
                      arg, end)
            /\ UNCHANGED <<fixture, longBits, kind>>

\* `assert(actual == expected);`
AssertEq ==
    /\ pc = "assert_eq"
    /\ IF Eq(actual, expected)
       THEN /\ evaluated' = evaluated \cup {"actual == expected"}
            /\ pc' = "return"
            /\ UNCHANGED <<fixture, longBits, kind, template, rendered, arg, end, actual,
                           expected, stdout, results>>
       ELSE /\ Finish("abort", actual, stdout, evaluated \cup {"actual == expected"},
                      arg, end)
            /\ UNCHANGED <<fixture, longBits, kind>>

\* `return 0;`
Return0 ==
    /\ pc = "return"
    /\ Finish("exit0", actual, stdout, evaluated, arg, end)
    /\ UNCHANGED <<fixture, longBits, kind>>

Next ==
    \/ \E fx \in Fixtures : Load(fx)
    \/ \E t \in TemplateIds : RenderOk(t)
    \/ \E t \in TemplateIds : RenderFail(t)
    \/ CompileOk
    \/ CompileError
    \/ InitActual
    \/ i64
    \/ u64
    \/ f64
    \/ AssignExpected
    \/ Branch
    \/ AssertNaN
    \/ AssertEq
    \/ Return0

Spec == Init /\ [][Next]_vars

\* The steps of the compiler and of the compiled program.
Run ==
    \/ CompileOk
    \/ CompileError
    \/ InitActual
    \/ i64
    \/ u64
    \/ f64
    \/ AssignExpected
    \/ Branch
    \/ AssertNaN
    \/ AssertEq
    \/ Return0

\* A started compiler or program runs on: its next step is eventually taken.
FairSpec == Spec /\ WF_vars(Run)

(***************************************************************************)
(* Properties.                                                             *)
(***************************************************************************)
\* The program of template t was run to an end.
Ran(t) == results[t].outcome \in {"exit0", "ParseError", "abort"}

\* The fixture's expected text denotes NaN.
FixtureExpectsNaN == Initializer(fixture.expected).val.nan

FixtureExpected == Initializer(fixture.expected).val

AssertionsOf(t) ==
    IF results[t].outcome = "ParseError" THEN {}
    ELSE IF FixtureExpectsNaN THEN {"actual != actual"}
    ELSE {"actual == expected"}

\* C1: when the fixture's expected value is NaN, a run of any of the four
\* templates evaluates `actual != actual` and never `actual == expected`,
\* and it passes exactly when actual is NaN too.
C1_NaNExpected ==
    FixtureExpectsNaN =>
        /\ pc # "assert_eq"
        /\ "actual == expected" \notin evaluated
        /\ \A t \in TemplateIds : Ran(t) =>
              /\ results[t].evaluated = AssertionsOf(t)
              /\ (results[t].outcome = "exit0") <=> results[t].actual.nan

C1_Witness ==
    /\ FixtureExpectsNaN
    /\ results["string.c"].outcome = "exit0"
    /\ results["string.c"].evaluated = {"actual != actual"}
    /\ results["string.c"].actual.nan

\* C2: when the fixture's expected value is not NaN, a run evaluates
\* `actual == expected` and never `actual != actual`; it passes exactly when
\* it produced an actual equal to expected, and a NaN actual aborts.
C2_NumberExpected ==
    ~FixtureExpectsNaN =>
        /\ pc # "assert_nan"
        /\ "actual != actual" \notin evaluated
        /\ \A t \in TemplateIds : Ran(t) =>
              /\ results[t].evaluated = AssertionsOf(t)
              /\ (results[t].outcome = "exit0") <=>
                    /\ results[t].outcome # "ParseError"
                    /\ ~results[t].actual.nan
                    /\ results[t].actual.w = FixtureExpected.w
              /\ results[t].actual.nan => results[t].outcome = "abort"

C2_Witness ==
    /\ ~FixtureExpectsNaN
    /\ results["string.cpp"].outcome = "abort"
    /\ results["string.cpp"].actual.nan
    /\ results["string.cpp"].evaluated = {"actual == expected"}

\* C3: in the string templates, for each parser, a conversion that stops
\* before the end of the string prints "ParseError:" and exits with status 1
\* before main assigns expected or evaluates an assertion.
C3_TrailingIsParseError ==
    \A t \in StringTemplates :
        (Ran(t) /\ results[t].end < Len(results[t].arg)) =>
            /\ results[t].outcome = "ParseError"
            /\ results[t].code = 1
            /\ results[t].stdout = <<"ParseError:\n">>
            /\ results[t].evaluated = {}
            /\ results[t].expected = Undef

C3_Witness ==
    /\ fixture.type = "i64"
    /\ results["string.c"].outcome = "ParseError"
    /\ results["string.c"].arg = <<"1", "2", "a", "b", "c">>
    /\ results["string.c"].end = 2

\* The selected assertion held in the ended run r.
Held(r) ==
    IF r.expected.nan THEN r.actual.nan ELSE ~r.actual.nan /\ r.actual.w = r.expected.w

C4_Outcomes ==
    \A t \in TemplateIds : Ran(t) =>
        /\ (results[t].outcome = "exit0") <=> results[t].code = 0
        /\ (results[t].outcome = "ParseError") <=>
              (results[t].code = 1 /\ results[t].stdout = <<"ParseError:\n">>)
        /\ (results[t].outcome = "abort") <=> results[t].code \notin {0, 1}
        /\ (results[t].outcome = "exit0") <=>
              (results[t].stdout = <<>> /\ results[t].evaluated # {} /\ Held(results[t]))
        /\ t \in LiteralTemplates => results[t].outcome # "ParseError"

C4_Final ==
    /\ \A t \in TemplateIds : Ran(t) => results'[t] = results[t]
    /\ (pc \notin {"start", "idle", "rendered"} /\ pc' = "idle") =>
          (results'[template].outcome \in {"exit0", "ParseError", "abort"})

\* C4: every run of a compiled program ends, in exactly one of exit code 0,
\* ParseError (message and exit code 1) and assertion abort (non-zero), and
\* the outcome of an ended run never changes; exit code 0 means no parse
\* error and the selected assertion held; a literal program never ends in
\* ParseError.
C4_Terminal ==
    /\ []C4_Outcomes
    /\ [][C4_Final]_vars
    /\ (pc = "main") ~> (pc = "idle")

C4_Witness ==
    /\ kind = "literal"
    /\ results["literal.c"].outcome = "abort"
    /\ results["literal.cpp"].outcome = "abort"

\* C5: rendering fails with MissingPlaceholder exactly when the fixture lacks
\* a placeholder the template references (string: type, value, expected,
\* base; literal: type, value, expected), and otherwise produces the program.
C5_MissingPlaceholder ==
    /\ \A t \in StringTemplates : results[t].outcome # "none" =>
          ((results[t].outcome = "MissingPlaceholder") <=>
              fixture.has # {"type", "value", "expected", "base"})
    /\ \A t \in LiteralTemplates : results[t].outcome # "none" =>
          ((results[t].outcome = "MissingPlaceholder") <=>
              ~({"type", "value", "expected"} \subseteq fixture.has))
    /\ pc = "rendered" =>
          /\ rendered # <<>>
          /\ \A l \in DOMAIN rendered : rendered[l] # <<>>

C5_Witness ==
    /\ "base" \notin fixture.has
    /\ results["literal.c"].outcome = "exit0"

\* C7 as stated: the u32 fixture at the unsigned 32-bit boundary renders a
\* string-parsing program that runs and whose equality assertion holds.
C7_AsStated ==
    \A t \in StringTemplates :
        (/\ fixture.type = "u32"
         /\ fixture.value = <<"4", "2", "9", "4", "9", "6", "7", "2", "9", "5">>
         /\ fixture.expected = <<"4", "2", "9", "4", "9", "6", "7", "2", "9", "5">>
         /\ fixture.base = <<"1", "0">>
         /\ fixture.has = AllPlaceholders
         /\ results[t].outcome # "none")
        => results[t].outcome = "exit0"

\* C7 amended: the templates declare i64, u64 and f64 only.  With value
\* "4294967295", base 10 and expected 4294967295, type u32 renders a program
\* that does not compile, and type u64 renders one that parses 2^32 - 1 and
\* passes, whatever the width of long.
C7_Boundary ==
    \A t \in StringTemplates :
        (/\ fixture.value = <<"4", "2", "9", "4", "9", "6", "7", "2", "9", "5">>
         /\ fixture.expected = <<"4", "2", "9", "4", "9", "6", "7", "2", "9", "5">>
         /\ fixture.base = <<"1", "0">>
         /\ fixture.has = AllPlaceholders
         /\ results[t].outcome # "none")
        => /\ fixture.type = "u32" => results[t].outcome = "CompileError"
           /\ fixture.type = "u64" =>
                 /\ results[t].outcome = "exit0"
                 /\ results[t].actual = Num(<<65535, 65535, 0, 0>>)

C7_Witness ==
    /\ fixture.type = "u64"
    /\ longBits = 32
    /\ fixture.value = <<"4", "2", "9", "4", "9", "6", "7", "2", "9", "5">>
    /\ results["string.c"].outcome = "exit0"
    /\ results["string.c"].actual = Num(<<65535, 65535, 0, 0>>)

\* C8 as stated: with the quoted text "42" as the fixture's value, the i64
\* parser is called on the string 42 and the program passes.
C8_AsStated ==
    \A t \in StringTemplates :
        (/\ fixture.type = "i64"
         /\ fixture.value = <<"\"", "4", "2", "\"">>
         /\ fixture.expected = <<"4", "2">>
         /\ fixture.base = <<"1", "0">>
         /\ fixture.has = AllPlaceholders
         /\ results[t].outcome # "none")
        => /\ results[t].outcome = "exit0"
           /\ results[t].arg = <<"4", "2">>

\* C8 amended: the string templates put their own quotes around the value.
\* With type i64, base 10, expected 42: the value 42 (no quotes) makes the
\* program call i64 on the string 42, take no ParseError path and pass with
\* actual = 42; the value "42" (with quotes) renders a call that does not
\* compile.
C8_Quoting ==
    \A t \in StringTemplates :
        (/\ fixture.type = "i64"
         /\ fixture.expected = <<"4", "2">>
         /\ fixture.base = <<"1", "0">>
         /\ fixture.has = AllPlaceholders
         /\ results[t].outcome # "none")
        => /\ fixture.value = <<"4", "2">> =>
                 /\ results[t].outcome = "exit0"
                 /\ results[t].arg = <<"4", "2">>
                 /\ results[t].stdout = <<>>
                 /\ results[t].actual = Num(<<42, 0, 0, 0>>)
                 /\ results[t].evaluated = {"actual == expected"}
           /\ fixture.value = <<"\"", "4", "2", "\"">> =>
                 results[t].outcome = "CompileError"

C8_Witness ==
    /\ fixture.type = "i64"
    /\ fixture.value = <<"4", "2">>
    /\ results["string.cpp"].outcome = "exit0"
    /\ results["string.cpp"].arg = <<"4", "2">>

\* C9: for one fixture, the C and the C++ program of a kind end the same
\* way: same outcome, same exit code, same parsed value, same output.
C9_SameInBothDialects ==
    /\ (results["literal.c"].outcome # "none" /\ results["literal.cpp"].outcome # "none")
          => results["literal.c"] = results["literal.cpp"]
    /\ (results["string.c"].outcome # "none" /\ results["string.cpp"].outcome # "none")
          => results["string.c"] = results["string.cpp"]

C9_Witness ==
    /\ fixture.type = "u64"
    /\ results["string.c"].outcome = "exit0"
    /\ results["string.cpp"].outcome = "exit0"
    /\ results["string.c"].actual = results["string.cpp"].actual

\* C10: a string-template run takes the ParseError path exactly when the
\* conversion stopped before the terminator.  The empty string converts to 0
\* without ParseError in all three parsers; a non-empty string of which
\* nothing was converted takes the ParseError path.
C10_ParseErrorIffTrailing ==
    \A t \in StringTemplates : Ran(t) =>
        /\ (results[t].outcome = "ParseError") <=> (results[t].end < Len(results[t].arg))
        /\ results[t].arg = <<>> =>
              /\ results[t].outcome # "ParseError"
              /\ results[t].actual = Num(Zero64)
              /\ fixture.expected = <<"0">> => results[t].outcome = "exit0"
        /\ (results[t].arg # <<>> /\ results[t].end = 0) => results[t].outcome = "ParseError"

C10_Witness ==
    /\ fixture.value = <<>>
    /\ fixture.expected = <<"0">>
    /\ results["string.c"].outcome = "exit0"
    /\ results["string.c"].arg = <<>>
    /\ results["string.c"].actual = Num(Zero64)

====
